---- MODULE Spec2Model ----
(***************************************************************************)
(* Model of the fact-checking pipeline of Fact_checker:                    *)
(*   fact_checker.get_web_snippets  (search + per-URL fetch loop)          *)
(*   fact_checker.verify_claim      (LLM call + defensive JSON parsing)    *)
(*   backend.check_fact             (normalisation into the UI schema)     *)
(*                                                                         *)
(* Texts.  A page text is a sequence of one-character strings, so that     *)
(* Python's slice text[:char_limit] is a real truncation.  An LLM reply is *)
(* a sequence of lexical tokens (punctuation, string literal, number,      *)
(* null, prose word, whitespace); json.loads is a recursive-descent parser *)
(* over that sequence.  String literals and prose words contain no brace.  *)
(***************************************************************************)
EXTENDS Integers, Sequences, FiniteSets, TLC

(* ----------------------------- bounds --------------------------------- *)
\* longest candidate list the search provider yields in the model
MaxUrls == 2
\* most <p> elements on a fetched page
MaxParas == 1
\* longest free-form reply (in tokens) of the direct verify_claim call
MaxReplyLen == 4

(* ------------------------- program constants -------------------------- *)
\* get_web_snippets(query, num_results=5, char_limit=1000)
DefaultNumResults == 5
DefaultCharLimit == 1000
\* check_fact: get_web_snippets(search_query, num_results=6)
CheckFactNumResults == 6
\* check_fact: result.get("confidence", 0) / 100
ConfidenceScale == 100

Min(a, b) == IF a < b THEN a ELSE b
Max(a, b) == IF a > b THEN a ELSE b

(* --------------------------- JSON values ------------------------------ *)
\* Every Python/JSON value has the same four fields, so that any two values
\* can be compared.  m holds the members of an object (k = key) or the
\* elements of a list (k = ""), in the order parsed.
JNull == [t |-> "null", n |-> 0, s |-> "", m |-> <<>>]
JNum(x) == [t |-> "num", n |-> x, s |-> "", m |-> <<>>]
JStr(x) == [t |-> "str", n |-> 0, s |-> x, m |-> <<>>]
JList(elems) == [t |-> "list", n |-> 0, s |-> "",
                 m |-> [j \in 1..Len(elems) |-> [k |-> "", v |-> elems[j]]]]
JObj(members) == [t |-> "obj", n |-> 0, s |-> "", m |-> members]
KV(key, val) == [k |-> key, v |-> val]

\* key in d   (d a dict)
HasKey(d, key) == \E j \in 1..Len(d.m) : d.m[j].k = key
\* d.get(key, default)
Get(d, key, default) ==
    IF HasKey(d, key)
    THEN d.m[CHOOSE j \in 1..Len(d.m) : d.m[j].k = key].v
    ELSE default
\* members[key] = val on a dict under construction: a repeated key keeps its
\* place and takes the new value
Put(members, key, val) ==
    IF \E j \in 1..Len(members) : members[j].k = key
    THEN [j \in 1..Len(members) |->
            IF members[j].k = key THEN KV(key, val) ELSE members[j]]
    ELSE Append(members, KV(key, val))

(* ------------------------------ tokens -------------------------------- *)
P(c) == [k |-> "p", s |-> c, n |-> 0]
TStr(x) == [k |-> "str", s |-> x, n |-> 0]
TNum(x) == [k |-> "num", s |-> "", n |-> x]
TNull == [k |-> "null", s |-> "null", n |-> 0]
W(x) == [k |-> "word", s |-> x, n |-> 0]
Ws == [k |-> "ws", s |-> " ", n |-> 0]

IsP(tok, c) == tok.k = "p" /\ tok.s = c

\* the characters of one token, and of a text
TokenText(tok) ==
    CASE tok.k = "str" -> "\"" \o tok.s \o "\""
      [] tok.k = "num" -> ToString(tok.n)
      [] OTHER -> tok.s

RECURSIVE Render(_)
Render(text) ==
    IF text = <<>> THEN "" ELSE TokenText(Head(text)) \o Render(Tail(text))

(* ----------------------------- str.strip ------------------------------ *)
RECURSIVE LStrip(_)
LStrip(text) ==
    IF text # <<>> /\ Head(text).k = "ws" THEN LStrip(Tail(text)) ELSE text

RECURSIVE RStrip(_)
RStrip(text) ==
    IF text # <<>> /\ text[Len(text)].k = "ws"
    THEN RStrip(SubSeq(text, 1, Len(text) - 1))
    ELSE text

Strip(text) == RStrip(LStrip(text))

(* --------------------------- str.find / rfind ------------------------- *)
\* 0-based index of the first / last occurrence, -1 when there is none
Find(text, c) ==
    IF \E j \in 1..Len(text) : IsP(text[j], c)
    THEN (CHOOSE j \in 1..Len(text) :
            /\ IsP(text[j], c)
            /\ \A h \in 1..(j-1) : ~IsP(text[h], c)) - 1
    ELSE -1

RFind(text, c) ==
    IF \E j \in 1..Len(text) : IsP(text[j], c)
    THEN (CHOOSE j \in 1..Len(text) :
            /\ IsP(text[j], c)
            /\ \A h \in (j+1)..Len(text) : ~IsP(text[h], c)) - 1
    ELSE -1

\* text[a:b] for 0 <= a
Slice(text, a, b) == SubSeq(text, a + 1, Min(b, Len(text)))

(* ----------------------------- json.loads ----------------------------- *)
ParseFail == [ok |-> FALSE, val |-> JNull, next |-> 0]
ParseOk(v, j) == [ok |-> TRUE, val |-> v, next |-> j]

\* first position >= i (1-based) that holds no whitespace
RECURSIVE SkipWs(_, _)
SkipWs(text, i) ==
    IF i <= Len(text) /\ text[i].k = "ws" THEN SkipWs(text, i + 1) ELSE i

RECURSIVE ParseValue(_, _)
RECURSIVE ParseElements(_, _, _)
RECURSIVE ParseMembers(_, _, _)

\* a value starting at position i
ParseValue(text, i) ==
    IF i > Len(text) THEN ParseFail
    ELSE LET tok == text[i] IN
         CASE tok.k = "str" -> ParseOk(JStr(tok.s), i + 1)
           [] tok.k = "num" -> ParseOk(JNum(tok.n), i + 1)
           [] tok.k = "null" -> ParseOk(JNull, i + 1)
           [] IsP(tok, "[") ->
                LET j == SkipWs(text, i + 1) IN
                IF j <= Len(text) /\ IsP(text[j], "]")
                THEN ParseOk(JList(<<>>), j + 1)
                ELSE ParseElements(text, j, <<>>)
           [] IsP(tok, "{") ->
                LET j == SkipWs(text, i + 1) IN
                IF j <= Len(text) /\ IsP(text[j], "}")
                THEN ParseOk(JObj(<<>>), j + 1)
                ELSE ParseMembers(text, j, <<>>)
           [] OTHER -> ParseFail

\* the elements of a list from position i on, acc the elements read so far
ParseElements(text, i, acc) ==
    LET r == ParseValue(text, i) IN
    IF ~r.ok THEN ParseFail
    ELSE LET j == SkipWs(text, r.next)
             got == Append(acc, r.val)
         IN  IF j > Len(text) THEN ParseFail
             ELSE IF IsP(text[j], "]") THEN ParseOk(JList(got), j + 1)
             ELSE IF IsP(text[j], ",")
                  THEN ParseElements(text, SkipWs(text, j + 1), got)
             ELSE ParseFail

\* the members of an object from position i on, acc the members read so far
ParseMembers(text, i, acc) ==
    IF i > Len(text) \/ text[i].k # "str" THEN ParseFail
    ELSE LET c == SkipWs(text, i + 1) IN
         IF c > Len(text) \/ ~IsP(text[c], ":") THEN ParseFail
         ELSE LET r == ParseValue(text, SkipWs(text, c + 1)) IN
              IF ~r.ok THEN ParseFail
              ELSE LET j == SkipWs(text, r.next)
                       got == Put(acc, text[i].s, r.val)
                   IN  IF j > Len(text) THEN ParseFail
                       ELSE IF IsP(text[j], "}") THEN ParseOk(JObj(got), j + 1)
                       ELSE IF IsP(text[j], ",")
                            THEN ParseMembers(text, SkipWs(text, j + 1), got)
                       ELSE ParseFail

\* json.loads(text): ok = FALSE stands for json.JSONDecodeError
JsonLoads(text) ==
    LET r == ParseValue(text, SkipWs(text, 1)) IN
    IF r.ok /\ SkipWs(text, r.next) = Len(text) + 1
    THEN [ok |-> TRUE, val |-> r.val]
    ELSE [ok |-> FALSE, val |-> JNull]

\* json.dumps-style text of a value: how the provider writes a JSON reply
RECURSIVE Serialize(_)
RECURSIVE SerializeItems(_, _, _)
Serialize(v) ==
    CASE v.t = "str" -> <<TStr(v.s)>>
      [] v.t = "num" -> <<TNum(v.n)>>
      [] v.t = "null" -> <<TNull>>
      [] v.t = "list" -> <<P("[")>> \o SerializeItems(v.m, 1, FALSE) \o <<P("]")>>
      [] v.t = "obj" -> <<P("{")>> \o SerializeItems(v.m, 1, TRUE) \o <<P("}")>>
SerializeItems(m, j, keyed) ==
    IF j > Len(m) THEN <<>>
    ELSE (IF j > 1 THEN <<P(","), Ws>> ELSE <<>>)
         \o (IF keyed THEN <<TStr(m[j].k), P(":"), Ws>> ELSE <<>>)
         \o Serialize(m[j].v)
         \o SerializeItems(m, j + 1, keyed)

(* ------------------------- Python floats ------------------------------ *)
\* A float is kept as an exact fraction in lowest terms with den > 0.
RECURSIVE GCD(_, _)
GCD(a, b) == IF b = 0 THEN a ELSE GCD(b, a % b)
Abs(a) == IF a < 0 THEN -a ELSE a
\* a / b for integers a and b > 0
TrueDiv(a, b) ==
    LET g == GCD(Abs(a), b) IN [num |-> a \div g, den |-> b \div g]
\* the literal 0.0
FloatZero == [num |-> 0, den |-> 1]

(* ====================== fact_checker.get_web_snippets ================== *)
Urls == {"u1", "u2"}
\* what one <p> holds after get_text(separator=" ", strip=True)
Paragraphs == {<<>>, <<"a", "b">>}
\* a fetched page: its <p> elements in document order
Pages == UNION {[1..len -> Paragraphs] : len \in 0..MaxParas}
\* requests.RequestException raised by requests.get or raise_for_status
RequestErrors == {"Timeout", "HTTPError"}
\* the char_limit arguments of a direct call
CharLimits == {0, 1, 2, DefaultCharLimit}

\* " ".join(paragraphs)
RECURSIVE Join(_)
Join(paras) ==
    IF paras = <<>> THEN <<>>
    ELSE IF Len(paras) = 1 THEN paras[1]
    ELSE paras[1] \o <<" ">> \o Join(Tail(paras))

\* text[:limit], limit of either sign
Truncate(text, limit) ==
    IF limit >= 0
    THEN SubSeq(text, 1, Min(limit, Len(text)))
    ELSE SubSeq(text, 1, Max(Len(text) + limit, 0))

\* the loop body after a successful fetch: the snippets list afterwards
AppendSnippet(list, url, text, limit) ==
    IF text # <<>>
    THEN Append(list, [url |-> url, text |-> Truncate(text, limit)])
    ELSE list

\* the candidate lists search(query, num_results) can yield
CandidateLists(n) ==
    UNION {[1..len -> Urls] : len \in 0..Min(n, MaxUrls)}

(* ========================= fact_checker.verify_claim =================== *)
\* messages of the exceptions generate_content raises
ProviderErrors == {"quota exceeded", ""}

\* faulty variant: the message alone, without the prefix
ErrorVariantBare(msg) == JObj(<<KV("error", JStr(msg))>>)

\* return {"error": f"API request failed: {e}"}
ErrorVariant(msg) ==
    JObj(<<KV("error", JStr("API request failed: " \o msg))>>)

\* return {"raw_response": model_text}
UnparsedVariant(text) == JObj(<<KV("raw_response", JStr(Render(text)))>>)

\* The response object: text is resp.text (textRaises: the accessor raises),
\* part is candidates[0].content parts[0] text, repr is str(resp).  An empty
\* sequence stands for both None and "" (the code tests `not model_text`).
ExtractText(resp) ==
    LET first == IF resp.textRaises THEN <<>> ELSE resp.text
        second == IF first = <<>> THEN resp.part ELSE first
        third == IF second = <<>> THEN resp.repr ELSE second
    IN  Strip(third)

\* faulty variant: no second attempt on the text between the braces
ParseReplyWholeOnly(text) ==
    LET whole == JsonLoads(text) IN
    IF whole.ok THEN [via |-> "full", val |-> whole.val]
    ELSE [via |-> "raw", val |-> UnparsedVariant(text)]

\* the two json.loads attempts and the raw fallback; via names the return
\* statement taken
ParseReply(text) ==
    LET whole == JsonLoads(text) IN
    IF whole.ok THEN [via |-> "full", val |-> whole.val]
    ELSE LET start == Find(text, "{")
             end == RFind(text, "}")
         IN  IF start # -1 /\ end # -1 /\ end > start
                /\ JsonLoads(Slice(text, start, end + 1)).ok
             THEN [via |-> "substring",
                   val |-> JsonLoads(Slice(text, start, end + 1)).val]
             ELSE [via |-> "raw", val |-> UnparsedVariant(text)]

(* ============================ backend.check_fact ======================= *)
NoEvidenceResult ==
    [verdict |-> "Unclear", confidence |-> FloatZero,
     summary |-> JStr("No evidence found."), evidence |-> <<>>]

\* "error" in result, for whatever json.loads returned; "undefined" when the
\* operand is not iterable (TypeError).  On a str the test is a substring
\* test; of the string literals of the model only "error" contains "error".
InResult(result, key) ==
    CASE result.t = "obj" -> IF HasKey(result, key) THEN "yes" ELSE "no"
      [] result.t = "list" ->
            IF \E j \in 1..Len(result.m) : result.m[j].v = JStr(key)
            THEN "yes" ELSE "no"
      [] result.t = "str" -> IF result.s = key THEN "yes" ELSE "no"
      [] OTHER -> "undefined"

ErrorResult(result) ==
    [verdict |-> "Unclear", confidence |-> FloatZero,
     summary |-> Get(result, "error", JNull), evidence |-> <<>>]

\* faulty variant: NOT ENOUGH INFO read as a refutation
NormalizeVerdictTwoWay(result) ==
    IF Get(result, "verdict", JNull) = JStr("SUPPORTED") THEN "True"
    ELSE IF HasKey(result, "verdict") THEN "False"
    ELSE "Unclear"

NormalizeVerdict(result) ==
    IF Get(result, "verdict", JNull) = JStr("SUPPORTED") THEN "True"
    ELSE IF Get(result, "verdict", JNull) = JStr("REFUTED") THEN "False"
    ELSE "Unclear"

\* result.get("confidence", 0) / 100, defined for numbers only
NormalizeConfidence(result) ==
    TrueDiv(Get(result, "confidence", JNum(0)).n, ConfidenceScale)

\* faulty variant: only the first snippet is echoed
EvidenceFirstOnly(list) ==
    [j \in 1..Min(1, Len(list)) |->
        [source |-> "Web", snippet |-> list[j].text, url |-> list[j].url]]

Evidence(list) ==
    [j \in 1..Len(list) |->
        [source |-> "Web", snippet |-> list[j].text, url |-> list[j].url]]

StructuredResult(result, list) ==
    [verdict |-> NormalizeVerdict(result),
     confidence |-> NormalizeConfidence(result),
     summary |-> Get(result, "explanation", JStr("")),
     evidence |-> Evidence(list)]

\* the exception the mapping code raises on this result, "" when none
MappingError(result) ==
    CASE InResult(result, "error") = "undefined" -> "TypeError"
      [] result.t # "obj" /\ InResult(result, "error") = "yes" -> "TypeError"
      [] result.t # "obj" -> "AttributeError"
      [] InResult(result, "error") = "yes" -> ""
      [] Get(result, "confidence", JNum(0)).t # "num" -> "TypeError"
      [] OTHER -> ""

(* ==================== replies of the LLM provider ====================== *)
VerdictFields ==
    {<<>>} \cup {<<KV("verdict", v)>> :
                    v \in {JStr("SUPPORTED"), JStr("REFUTED"),
                           JStr("NOT ENOUGH INFO"), JStr(""), JStr("maybe"),
                           JNum(1)}}
ConfidenceFields ==
    {<<>>} \cup {<<KV("confidence", c)>> :
                    c \in {JNum(0), JNum(85), JNum(100), JNum(250), JNum(-5),
                           JStr("85"), JNull}}
\* objects of the shape the prompt asks for, with every field combination
StructuredObjects ==
    {JObj(v \o <<KV("explanation", JStr("because"))>> \o c
            \o <<KV("sources", JList(<<JStr("u2")>>))>>) :
        v \in VerdictFields, c \in ConfidenceFields}
\* JSON the prompt does not ask for
OtherValues ==
    {JObj(<<>>),
     JObj(<<KV("error", JStr("boom"))>>),
     JObj(<<KV("verdict", JStr("SUPPORTED")), KV("confidence", JNum(90)),
            KV("error", JStr("boom"))>>),
     JObj(<<KV("verdict", JStr("REFUTED")), KV("raw_response", JStr("x"))>>),
     JList(<<>>), JList(<<JStr("error")>>),
     JNum(42), JStr("error"), JStr("fine"), JNull}
Example == JObj(<<KV("verdict", JStr("SUPPORTED")), KV("confidence", JNum(85))>>)

Fenced(text) == <<W("Sure!"), Ws, W("~~~json"), Ws>> \o text \o <<Ws, W("~~~")>>
Padded(text) == <<Ws>> \o text \o <<Ws, Ws>>
Followed(text) == text \o <<Ws, W("Hope"), Ws, W("this"), Ws, W("helps.")>>
BracedProse(text) == <<W("Use"), Ws, P("{"), W("x"), P("}"), W(":"), Ws>> \o text

\* the reply texts of the pipeline runs
Replies ==
    {Serialize(v) : v \in StructuredObjects \cup OtherValues}
    \cup {Fenced(Serialize(v)) : v \in {Example, JList(<<>>), JNum(42)}}
    \cup {Padded(Serialize(Example)), Followed(Serialize(Example)),
          BracedProse(Serialize(Example)),
          <<W("I"), Ws, W("cannot"), Ws, W("tell.")>>, <<Ws>>, <<>>}

\* the reply texts of a direct verify_claim call: every token string
FreeAlphabet == {P("{"), P("}"), P(":"), TStr("error"), TNum(1), W("x"), Ws}
FreeReplies == UNION {[1..len -> FreeAlphabet] : len \in 0..MaxReplyLen}

ReprText == <<W("GenerateContentResponse(done=True)")>>
TextResp(text) ==
    [text |-> text, textRaises |-> FALSE, part |-> <<>>, repr |-> ReprText]
\* responses whose .text is empty or raises
FallbackResps ==
    {[text |-> <<>>, textRaises |-> raises, part |-> part, repr |-> repr] :
        raises \in BOOLEAN,
        part \in {<<>>, Serialize(Example)},
        repr \in {<<>>, ReprText}}
\* what generate_content returns
Resps(e) ==
    {TextResp(text) :
        text \in IF e = "verify_claim" THEN FreeReplies \cup Replies ELSE Replies}
    \cup FallbackResps

(* ============================ the state machine ======================== *)
VARIABLES
    entry,        \* the function called: check_fact, get_web_snippets, verify_claim
    pc,           \* position of the call
    num_results,  \* get_web_snippets argument
    char_limit,   \* get_web_snippets argument
    cands,        \* the URLs the search generator yields
    i,            \* URLs consumed from the generator so far
    fetched,      \* outcome of each fetch so far (history of the loop)
    snippets,     \* get_web_snippets' list; check_fact's / verify_claim's snippets
    llmCalls,     \* calls of generate_content so far
    llmError,     \* message of the exception generate_content raised
    model_text,   \* verify_claim: the stripped reply text
    via,          \* verify_claim: the return statement taken
    result,       \* verify_claim's return value
    out,          \* check_fact's return value
    exc           \* the exception that left the entry function, "" when none

vars == <<entry, pc, num_results, char_limit, cands, i, fetched, snippets,
          llmCalls, llmError, model_text, via, result, out, exc>>
frame == <<cands, i, fetched>>
verifyVars == <<llmCalls, llmError, model_text, via, result>>

NoResult ==
    [verdict |-> "", confidence |-> FloatZero, summary |-> JNull,
     evidence |-> <<>>]
\* the snippets argument of a direct verify_claim call
ExampleSnippets == <<[url |-> "u1", text |-> <<"a", "b">>]>>

Init ==
    /\ entry \in {"check_fact", "get_web_snippets", "verify_claim"}
    /\ pc = IF entry = "verify_claim" THEN "verify" ELSE "search"
    /\ num_results = IF entry = "check_fact" THEN CheckFactNumResults
                     ELSE DefaultNumResults
    /\ char_limit \in IF entry = "get_web_snippets" THEN CharLimits
                      ELSE {DefaultCharLimit}
    /\ cands = <<>> /\ i = 0 /\ fetched = <<>>
    /\ snippets = IF entry = "verify_claim" THEN ExampleSnippets ELSE <<>>
    /\ llmCalls = 0 /\ llmError = "" /\ model_text = <<>> /\ via = "none" /\ result = JNull
    /\ out = NoResult /\ exc = ""

\* for url in search(query, num_results=num_results): the generator is created
Search ==
    /\ pc = "search"
    /\ \E c \in CandidateLists(num_results) : cands' = c
    /\ pc' = "loop"
    /\ UNCHANGED <<entry, num_results, char_limit, i, fetched, snippets,
                   verifyVars, out, exc>>

\* the search provider fails while the loop asks it for the next URL; the
\* for statement is outside every try, so the exception leaves the function
SearchRaise ==
    /\ pc = "loop"
    /\ pc' = "raised" /\ exc' = "SearchError"
    /\ UNCHANGED <<entry, num_results, char_limit, frame, snippets,
                   verifyVars, out>>

\* one iteration: the GET succeeds and the page is parsed
FetchOk ==
    /\ pc = "loop" /\ i < Len(cands)
    /\ \E page \in Pages :
         LET url == cands[i + 1]
             text == Join(page)
         IN  /\ snippets' = AppendSnippet(snippets, url, text, char_limit)
             /\ fetched' = Append(fetched, [url |-> url, ok |-> TRUE, text |-> text])
    /\ i' = i + 1
    /\ UNCHANGED <<entry, pc, num_results, char_limit, cands,
                   verifyVars, out, exc>>

\* faulty variant: a failed fetch ends the loop
FetchFailBreaks ==
    /\ pc = "loop" /\ i < Len(cands)
    /\ i' = Len(cands)
    /\ UNCHANGED <<entry, pc, num_results, char_limit, cands, fetched, snippets,
                   verifyVars, out, exc>>

\* one iteration: requests.RequestException is caught and a warning printed
FetchFail ==
    /\ pc = "loop" /\ i < Len(cands)
    /\ \E e \in RequestErrors :
         fetched' = Append(fetched, [url |-> cands[i + 1], ok |-> FALSE, text |-> <<>>])
    /\ i' = i + 1
    /\ UNCHANGED <<entry, pc, num_results, char_limit, cands, snippets,
                   verifyVars, out, exc>>

\* return snippets, to the caller of a direct call
ReturnSnippets ==
    /\ entry = "get_web_snippets"
    /\ pc = "loop" /\ i = Len(cands)
    /\ pc' = "returned"
    /\ UNCHANGED <<entry, num_results, char_limit, frame, snippets,
                   verifyVars, out, exc>>

\* faulty variant: no short circuit, verify_claim is called without evidence
NoEvidenceCallsVerify ==
    /\ entry = "check_fact"
    /\ pc = "loop" /\ i = Len(cands)
    /\ snippets = <<>>
    /\ pc' = "verify"
    /\ cands' = <<>> /\ i' = 0 /\ fetched' = <<>>
    /\ UNCHANGED <<entry, num_results, char_limit, snippets,
                   verifyVars, out, exc>>

\* check_fact: get_web_snippets returned nothing.  The callee's frame is gone.
NoEvidence ==
    /\ entry = "check_fact"
    /\ pc = "loop" /\ i = Len(cands)
    /\ snippets = <<>>
    /\ out' = NoEvidenceResult
    /\ pc' = "done"
    /\ cands' = <<>> /\ i' = 0 /\ fetched' = <<>>
    /\ UNCHANGED <<entry, num_results, char_limit, snippets,
                   verifyVars, exc>>

\* check_fact: get_web_snippets returned evidence; verify_claim is called
CallVerify ==
    /\ entry = "check_fact"
    /\ pc = "loop" /\ i = Len(cands)
    /\ snippets # <<>>
    /\ pc' = "verify"
    /\ cands' = <<>> /\ i' = 0 /\ fetched' = <<>>
    /\ UNCHANGED <<entry, num_results, char_limit, snippets,
                   verifyVars, out, exc>>

AfterVerify == IF entry = "verify_claim" THEN "returned" ELSE "map"

\* verify_claim: generate_content raises
GenerateRaise ==
    /\ pc = "verify"
    /\ llmCalls' = llmCalls + 1
    /\ \E msg \in ProviderErrors :
         /\ llmError' = msg
         /\ result' = ErrorVariant(msg)
    /\ via' = "error"
    /\ pc' = AfterVerify
    /\ UNCHANGED <<entry, num_results, char_limit, frame, snippets,
                   model_text, out, exc>>

\* verify_claim: generate_content answers; text extraction and parsing
GenerateReply ==
    /\ pc = "verify"
    /\ llmCalls' = llmCalls + 1
    /\ \E resp \in Resps(entry) :
         LET text == ExtractText(resp)
             parsed == ParseReply(text)
         IN  /\ model_text' = text
             /\ via' = parsed.via
             /\ result' = parsed.val
    /\ pc' = AfterVerify
    /\ UNCHANGED <<entry, num_results, char_limit, frame, snippets, llmError,
                   out, exc>>

\* check_fact: if "error" in result
MapError ==
    /\ pc = "map"
    /\ MappingError(result) = "" /\ InResult(result, "error") = "yes"
    /\ out' = ErrorResult(result)
    /\ pc' = "done"
    /\ UNCHANGED <<entry, num_results, char_limit, frame, snippets,
                   verifyVars, exc>>

\* check_fact: the final return
MapStructured ==
    /\ pc = "map"
    /\ MappingError(result) = "" /\ InResult(result, "error") = "no"
    /\ out' = StructuredResult(result, snippets)
    /\ pc' = "done"
    /\ UNCHANGED <<entry, num_results, char_limit, frame, snippets,
                   verifyVars, exc>>

\* check_fact: the mapping code raises on what verify_claim returned
MapRaise ==
    /\ pc = "map"
    /\ MappingError(result) # ""
    /\ exc' = MappingError(result)
    /\ pc' = "raised"
    /\ UNCHANGED <<entry, num_results, char_limit, frame, snippets,
                   verifyVars, out>>

Next ==
    \/ Search
    \/ SearchRaise
    \/ FetchOk
    \/ FetchFail
    \/ ReturnSnippets
    \/ NoEvidence
    \/ CallVerify
    \/ GenerateRaise
    \/ GenerateReply
    \/ MapError
    \/ MapStructured
    \/ MapRaise

Spec == Init /\ [][Next]_vars

(* ================================ claims =============================== *)
Verdicts == {"True", "False", "Unclear"}
Returned == entry = "check_fact" /\ pc = "done"
\* verify_claim returned a dict that has no "error" key
NoErrorKey == result.t = "obj" /\ \A j \in 1..Len(result.m) : result.m[j].k # "error"
\* the value under key of the returned dict, Absent when it has none
Absent == [t |-> "absent", n |-> 0, s |-> "", m |-> <<>>]
Field(key) ==
    IF \E j \in 1..Len(result.m) : result.m[j].k = key
    THEN result.m[CHOOSE j \in 1..Len(result.m) : result.m[j].k = key].v
    ELSE Absent

\* C1: when get_web_snippets returns an empty list, check_fact returns exactly
\* {verdict "Unclear", confidence 0.0, summary "No evidence found.",
\* evidence []} and generate_content has not been called at all.
C1_NoEvidenceShortCircuit ==
    (entry = "check_fact" /\ snippets = <<>>) =>
        /\ llmCalls = 0
        /\ pc \notin {"verify", "map"}
        /\ pc = "done" =>
             /\ out.verdict = "Unclear"
             /\ out.confidence = [num |-> 0, den |-> 1]
             /\ out.summary = JStr("No evidence found.")
             /\ out.evidence = <<>>
\* two candidate pages were tried, none gave a snippet, check_fact returned
C1_Witness ==
    Returned /\ snippets = <<>> /\ out.summary = JStr("No evidence found.")

\* C2: check_fact never raises, whatever the search provider, the fetches and
\* the LLM do; every call ends by returning a CheckResult.
C2_CheckFactNeverRaises ==
    entry = "check_fact" => pc # "raised"

\* C3 as stated: with evidence, when generate_content raises, check_fact
\* returns "Unclear", 0.0, no evidence and a summary equal to the provider's
\* error message.
C3_SummaryIsProviderMessage ==
    (Returned /\ via = "error") =>
        /\ out.verdict = "Unclear"
        /\ out.confidence = [num |-> 0, den |-> 1]
        /\ out.evidence = <<>>
        /\ out.summary = JStr(llmError)
\* C3 amended: ... and a summary equal to "API request failed: " followed by
\* the provider's error message.
C3_SummaryIsPrefixedMessage ==
    (Returned /\ via = "error") =>
        /\ snippets # <<>>
        /\ out.verdict = "Unclear"
        /\ out.confidence = [num |-> 0, den |-> 1]
        /\ out.evidence = <<>>
        /\ out.summary = JStr("API request failed: " \o llmError)
C3_Witness ==
    Returned /\ via = "error" /\ llmError = "quota exceeded" /\ Len(snippets) = 2

\* C4: for a structured reply the returned verdict is "True" for SUPPORTED,
\* "False" for REFUTED and "Unclear" for anything else, an absent verdict
\* included; every returned verdict is one of the three.
C4_VerdictMapping ==
    Returned =>
        /\ out.verdict \in Verdicts
        /\ (via \in {"full", "substring"} /\ NoErrorKey) =>
             /\ Field("verdict") = JStr("SUPPORTED") => out.verdict = "True"
             /\ Field("verdict") = JStr("REFUTED") => out.verdict = "False"
             /\ Field("verdict") \notin {JStr("SUPPORTED"), JStr("REFUTED")}
                    => out.verdict = "Unclear"
C4_Witness ==
    /\ Returned /\ via = "full" /\ NoErrorKey
    /\ Field("verdict") = JStr("NOT ENOUGH INFO")
    /\ out.verdict = "Unclear"

\* C5: the confidence of every returned CheckResult lies in 0.0 .. 1.0,
\* whatever confidence the reply carries.
C5_ConfidenceInUnitRange ==
    Returned =>
        /\ 0 <= out.confidence.num
        /\ out.confidence.num <= out.confidence.den

\* C6: a fetch that fails with a RequestException does not stop the loop:
\* every candidate URL is attempted, in order, and the list holds exactly one
\* snippet for each URL fetched with non-empty paragraph text, in candidate
\* order, and none for the others.
Good(f) == f.ok /\ f.text # <<>>
C6_FetchIsolation ==
    (pc \in {"loop", "returned"} /\ entry # "verify_claim") =>
        /\ Len(fetched) = i /\ i <= Len(cands)
        /\ \A j \in 1..i : fetched[j].url = cands[j]
        /\ pc = "returned" => i = Len(cands)
        /\ Len(snippets) = Len(SelectSeq(fetched, Good))
        /\ \A j \in 1..Len(snippets) :
             snippets[j].url = SelectSeq(fetched, Good)[j].url
\* first fetch fails, second succeeds: one snippet, from the second URL
C6_Witness ==
    /\ pc = "returned" /\ Len(cands) = 2
    /\ ~fetched[1].ok /\ Good(fetched[2])
    /\ Len(snippets) = 1 /\ snippets[1].url = cands[2]

\* C7: for every char_limit, each snippet of the returned list has a non-empty
\* text of at most char_limit characters.
C7_SnippetTextBounded ==
    (entry = "get_web_snippets" /\ pc = "returned") =>
        \A j \in 1..Len(snippets) :
            /\ snippets[j].text # <<>>
            /\ Len(snippets[j].text) <= char_limit

\* C8: what verify_claim returns is exactly one of: a structured record, the
\* error record {error}, the unparsed record {raw_response}.
Keys == {result.m[j].k : j \in 1..Len(result.m)}
IsStructured ==
    result.t = "obj" /\ Keys \subseteq {"verdict", "explanation", "confidence", "sources"}
IsErrorRecord == result.t = "obj" /\ Keys = {"error"}
IsUnparsed == result.t = "obj" /\ Keys = {"raw_response"}
C8_ExactlyOneVariant ==
    via # "none" =>
        \/ IsStructured /\ ~IsErrorRecord /\ ~IsUnparsed
        \/ ~IsStructured /\ IsErrorRecord /\ ~IsUnparsed
        \/ ~IsStructured /\ ~IsErrorRecord /\ IsUnparsed

\* C9: the reply text is trimmed; if all of it parses as JSON that value is
\* returned; otherwise, if the text from the first "{" to the last "}" parses,
\* that value is returned; otherwise {raw_response: text}.  The second
\* strategy is used only after the first failed, the third only after both.
Trimmed(text) ==
    text = <<>> \/ (text[1].k # "ws" /\ text[Len(text)].k # "ws")
Braces == {j \in 1..Len(model_text) : IsP(model_text[j], "{")}
Closers == {j \in 1..Len(model_text) : IsP(model_text[j], "}")}
FirstBrace == CHOOSE j \in Braces : \A h \in Braces : j <= h
LastCloser == CHOOSE j \in Closers : \A h \in Closers : h <= j
Embedded ==
    IF Braces # {} /\ Closers # {} /\ FirstBrace < LastCloser
    THEN JsonLoads(SubSeq(model_text, FirstBrace, LastCloser))
    ELSE [ok |-> FALSE, val |-> JNull]
C9_ParseOrder ==
    via \in {"full", "substring", "raw"} =>
        /\ Trimmed(model_text)
        /\ JsonLoads(model_text).ok =>
             via = "full" /\ result = JsonLoads(model_text).val
        /\ (~JsonLoads(model_text).ok /\ Embedded.ok) =>
             via = "substring" /\ result = Embedded.val
        /\ (~JsonLoads(model_text).ok /\ ~Embedded.ok) =>
             /\ via = "raw"
             /\ result = JObj(<<KV("raw_response", JStr(Render(model_text)))>>)
        /\ model_text = Fenced(Serialize(Example)) => result = Example
\* the fenced reply of the prompt's example yields the embedded object
C9_Witness ==
    /\ via = "substring"
    /\ model_text = Fenced(Serialize(Example))
    /\ result = Example

\* C10: when verify_claim returned a dict without "error" key, the evidence
\* check_fact returns is the snippets one to one, in order, as
\* {source "Web", snippet text, url}, whatever "sources" says; for the
\* unparsed record the result is "Unclear", 0.0 and summary "".
C10_EvidenceEcho ==
    (Returned /\ via # "error" /\ NoErrorKey) =>
        /\ Len(out.evidence) = Len(snippets)
        /\ \A j \in 1..Len(snippets) :
             out.evidence[j] = [source |-> "Web", snippet |-> snippets[j].text,
                                url |-> snippets[j].url]
        /\ via = "raw" =>
             /\ out.verdict = "Unclear"
             /\ out.confidence = [num |-> 0, den |-> 1]
             /\ out.summary = JStr("")
\* the reply cites u2 only; both snippets, the first from u1, are returned
C10_Witness ==
    /\ Returned /\ via = "full"
    /\ Field("sources") = JList(<<JStr("u2")>>)
    /\ Len(out.evidence) = 2 /\ out.evidence[1].url = "u1"
\* the unparsed record reaches the caller as an empty summary
C10_WitnessUnparsed ==
    Returned /\ via = "raw" /\ out.summary = JStr("") /\ Len(out.evidence) = 2

====
